---- MODULE Spec2Model ----
(***************************************************************************)
(* Model of the Clon terminal renderer: colour packing, the raw input      *)
(* decoder (pollInput), the pixel canvas (drawPixel), the render backend   *)
(* (drawBuff) and the main loop of src/src/main.cpp, together with the     *)
(* older program variants kept in the repository.                          *)
(***************************************************************************)
EXTENDS Integers, Sequences, FiniteSets, TLC

VARIABLES
    color,        \* Color handed to compactColor (r, g, b)
    packed,       \* int returned by compactColor
    rgb,          \* (r, g, b) written by unpackColor
    colorPc,      \* "idle" | "packed" | "unpacked"
    inputBuffer,  \* std::deque<char> inputBuffer (main.cpp:126)
    keys,         \* std::vector<KeyEvent> returned by the last pollInput()
    chunk,        \* bytes read(2) delivered to the last pollInput()
    preBuffer,    \* inputBuffer as it was when the last pollInput() started
    nread,        \* bytes read from stdin so far
    polls,        \* pollInput() calls so far
    program,      \* which program of the repository runs: "main" (main.cpp:1-392),
                  \* "part000" (unnamed/part_000), "second" (main.cpp:394-571)
    platform,     \* "posix" | "win32": the branch of #ifdef _WIN32 that is built
    pixelBuff,    \* screen *pixelBuff: pixelBuff[y][x], rows 0..ScreenH-1
    prevBuff,     \* pixelBuff as it was when the last drawPixel() started
    lastPixel,    \* arguments of the last drawPixel(): x, y, c
    lastLine,     \* arguments of the last drawLine(): x0, y0, x1, y1, c
    draws,        \* drawPixel() calls so far
    ub,           \* an access outside an array has happened (undefined behaviour)
    term,         \* the terminal's size when it was last queried: cols, rows
    frame,        \* what the last drawBuff() wrote
    winBufSize,   \* size of drawBuff's static CHAR_INFO buffer (-1: not yet built)
    pc,           \* where main() is: "start", "top" (the while test), "poll",
                  \* "draw", "pace", "done" (returned), "aborted" (terminated)
    running,      \* bool running of main()
    termW,        \* int termW / terminalWidth of main()
    termH,        \* int termH / terminalHeight of main()
    sizeKnown,    \* termW and termH have been assigned (they start uninitialised)
    tickLog,      \* what the current iteration of the while loop has done so far
    lastTick,     \* tickLog of the last iteration that ended
    ticks,        \* iterations of the while loop started so far
    escapeSeen,   \* a KeyType::Escape event has reached the switch of main()
    restoreCount, \* calls of restoreTerminal() so far
    tty,          \* the terminal's input settings: icanon, echo, nonblock
    origTerm,     \* termios origTerm (main.cpp:125): icanon, echo
    ttyLog,       \* the enableRawInput() and restoreTerminal() calls so far, the
                  \* settings before the last enableRawInput() and before the last call
    nextFrame,    \* static nextFrame of limitFPS
    paceStarted,  \* that static has been initialised (by the first call)
    now,          \* steady_clock::now(), in nanoseconds since the program started
    paceLog,      \* the limitFPS() calls so far: how many, the first one's time, the
                  \* last one's time, deadline on entry and time of return, and
                  \* whether the caller has worked since the first or the last call
    coutMode,     \* how the C++ runtime buffers std::cout: "none", "line", "full"
    coutBuf,      \* what was written to std::cout and has not reached the terminal
    out           \* what has reached the terminal, in order

colorVars == <<color, packed, rgb, colorPc>>
inputVars == <<inputBuffer, keys, chunk, preBuffer, nread, polls>>
buildVars == <<program, platform>>
canvasVars == <<pixelBuff, prevBuff, lastPixel, lastLine, draws, ub>>
renderVars == <<term, frame, winBufSize>>
loopVars == <<pc, running, termW, termH, sizeKnown, tickLog, lastTick, ticks, escapeSeen>>
ttyVars == <<restoreCount, tty, origTerm, ttyLog>>
paceVars == <<nextFrame, paceStarted, now, paceLog>>
outVars == <<coutMode, coutBuf, out>>
mainVars == <<pc, running, termW, termH, sizeKnown, tickLog, lastTick, ticks, escapeSeen,
              restoreCount, tty, origTerm, ttyLog, nextFrame, paceStarted, now, paceLog, coutMode, coutBuf, out>>
vars == <<color, packed, rgb, colorPc,
          inputBuffer, keys, chunk, preBuffer, nread, polls,
          program, platform,
          pixelBuff, prevBuff, lastPixel, lastLine, draws, ub,
          term, frame, winBufSize,
          pc, running, termW, termH, sizeKnown, tickLog, lastTick, ticks, escapeSeen,
          restoreCount, tty, origTerm, ttyLog, nextFrame, paceStarted, now, paceLog, coutMode, coutBuf, out>>

(***************************************************************************)
(* Bounds of the model.                                                    *)
(***************************************************************************)
MaxBytes == 4      \* bytes delivered on stdin in one run of the decoder
MaxPolls == 3      \* pollInput() calls in one run of the decoder
MaxTtyCalls == 5   \* enableRawInput() and restoreTerminal() calls in one run
MaxWaits == 4      \* limitFPS() calls in one run of the pacer
MaxDraws == 2      \* drawPixel() calls on one canvas
MaxTicks == 2      \* iterations of the main loop

\* The canvas is screen = std::array<std::array<int, 300>, 300> (main.cpp:20).
\* The model keeps its shape and scales it down; every literal of the source
\* that is derived from it (the minimum terminal size 300 x 150 of the main
\* loops) is written in terms of these two.
ScreenW == 4
ScreenH == 4

(***************************************************************************)
(* Colour packing (main.cpp:22-30).                                        *)
(***************************************************************************)
ChannelMax == 255

\* Channel values the colour inputs are drawn from: the ends of the range,
\* the digit-count boundaries of the decimal packing and the thresholds the
\* console backend uses.
ChannelSample == {0, 1, 9, 10, 99, 100, 128, 129, 200, 201, 254, ChannelMax}

Channels == 0..ChannelMax

compactColor(c) == c.r * 1000000 + c.g * 1000 + c.b

unpackColorMutG(p) ==
    [r |-> p \div 1000000, g |-> (p \div 1000) % 100, b |-> p % 1000]

unpackColor(p) ==
    [r |-> p \div 1000000, g |-> (p \div 1000) % 1000, b |-> p % 1000]

\* The colours tried: one channel ranges over all of 0..255 while the other
\* two range over the sample.
ColorInputs ==
    {[r |-> x, g |-> y, b |-> z] : x \in Channels, y \in ChannelSample, z \in {0, ChannelMax}}
    \cup {[r |-> y, g |-> x, b |-> z] : x \in Channels, y \in {0, ChannelMax}, z \in ChannelSample}
    \cup {[r |-> z, g |-> y, b |-> x] : x \in Channels, y \in {0, ChannelMax}, z \in ChannelSample}

NoColor == [r |-> 0, g |-> 0, b |-> 0]

CompactColor ==
    /\ colorPc = "idle"
    /\ \E c \in ColorInputs :
        /\ color' = c
        /\ packed' = compactColor(c)
    /\ colorPc' = "packed"
    /\ UNCHANGED <<rgb, inputVars, buildVars, canvasVars, renderVars, mainVars>>

UnpackColor ==
    /\ colorPc = "packed"
    /\ rgb' = unpackColor(packed)
    /\ colorPc' = "unpacked"
    /\ UNCHANGED <<color, packed, inputVars, buildVars, canvasVars, renderVars, mainVars>>

(***************************************************************************)
(* Raw input decoder, POSIX build (main.cpp:124-183).                      *)
(***************************************************************************)
ESC == 27
LBRACKET == 91
CR == 13
LF == 10
BS == 8
DEL == 127
TAB == 9

\* Bytes the environment delivers on stdin: ESC, '[', the arrow finals
\* 'A'..'D', an unrecognised final 'Z', CR, LF, BS, DEL, TAB and 'a'.
Bytes == {ESC, LBRACKET, 65, 66, 67, 68, 90, CR, LF, BS, DEL, TAB, 97}

CharKey(c) == [type |-> "Char", ch |-> c]
Key(t) == [type |-> t, ch |-> 0]

\* switch (code) of main.cpp:151-167
\* The switch reporting an unrecognised final byte as the Escape key.
ArrowKeyMutEscape(code) ==
    CASE code = 65 -> Key("Up")
      [] code = 66 -> Key("Down")
      [] code = 67 -> Key("Right")
      [] code = 68 -> Key("Left")
      [] OTHER -> Key("Escape")

ArrowKeyMutSwap(code) ==
    CASE code = 65 -> Key("Up")
      [] code = 66 -> Key("Down")
      [] code = 67 -> Key("Left")
      [] code = 68 -> Key("Right")
      [] OTHER -> Key("Unknown")

ArrowKey(code) ==
    CASE code = 65 -> Key("Up")
      [] code = 66 -> Key("Down")
      [] code = 67 -> Key("Right")
      [] code = 68 -> Key("Left")
      [] OTHER -> Key("Unknown")

\* the else-if chain of main.cpp:172-179
PlainKeyMutBs(c) ==
    IF c = CR \/ c = LF THEN Key("Enter")
    ELSE IF c = DEL THEN Key("Backspace")
    ELSE IF c = TAB THEN Key("Tab")
    ELSE CharKey(c)

PlainKey(c) ==
    IF c = CR \/ c = LF THEN Key("Enter")
    ELSE IF c = BS \/ c = DEL THEN Key("Backspace")
    ELSE IF c = TAB THEN Key("Tab")
    ELSE CharKey(c)

\* main.cpp:169: the ESC popped at line 145 is pushed back on the front.
HoldEscapeMutDrop(c, rest) == rest

HoldEscape(c, rest) == <<c>> \o rest

\* The while loop of main.cpp:143-180 on queue buf with the events ks
\* decoded so far; yields the queue and the events when the loop ends.
RECURSIVE Drain(_, _)
Drain(buf, ks) ==
    IF buf = <<>> THEN [buf |-> buf, keys |-> ks]
    ELSE LET c == Head(buf)
             rest == Tail(buf)
         IN IF c = ESC
            THEN IF Len(rest) >= 2 /\ rest[1] = LBRACKET
                 THEN Drain(SubSeq(rest, 3, Len(rest)), Append(ks, ArrowKey(rest[2])))
                 ELSE [buf |-> HoldEscape(c, rest), keys |-> ks]
            ELSE Drain(rest, Append(ks, PlainKey(c)))

\* pollInput() when read(2) delivers the bytes ch (none when it returns
\* 0 or -1): main.cpp:137-182.
pollInput(buf, ch) == Drain(buf \o ch, <<>>)

ChunksUpTo(n) == UNION {[1..k -> Bytes] : k \in 0..n}

PollInput ==
    /\ polls < MaxPolls
    /\ \E ch \in ChunksUpTo(MaxBytes - nread) :
        LET res == pollInput(inputBuffer, ch)
        IN /\ inputBuffer' = res.buf
           /\ keys' = res.keys
           /\ chunk' = ch
           /\ preBuffer' = inputBuffer
           /\ nread' = nread + Len(ch)
    /\ polls' = polls + 1
    /\ UNCHANGED <<colorVars, buildVars, canvasVars, renderVars, mainVars>>

(***************************************************************************)
(* The canvas and drawPixel.                                               *)
(***************************************************************************)
Rows == 0..(ScreenH - 1)
Cols == 0..(ScreenW - 1)

\* new screen{}: every pixel value-initialised to 0 (main.cpp:331).
EmptyScreen == [y \in Rows |-> [x \in Cols |-> 0]]

Red == [r |-> 255, g |-> 0, b |-> 0]
Green == [r |-> 0, g |-> 255, b |-> 0]
Blue == [r |-> 0, g |-> 0, b |-> 255]

\* Colours drawn with: those of main.cpp:332-335.
Palette == {Red, Green, Blue}

\* Coordinates drawPixel is tried with: the canvas and one step outside it.
Coords == (-1)..(IF ScreenW > ScreenH THEN ScreenW ELSE ScreenH)

\* drawPixel refusing column 0 and row 0.
drawPixelMutEdge(buff, x, y, c) ==
    IF x <= 0 \/ y <= 0 \/ x >= ScreenW \/ y >= ScreenH
    THEN buff
    ELSE [buff EXCEPT ![y][x] = compactColor(c)]

\* drawPixel of main.cpp:212-216.
drawPixel(buff, x, y, c) ==
    IF x < 0 \/ y < 0 \/ x >= ScreenW \/ y >= ScreenH
    THEN buff
    ELSE [buff EXCEPT ![y][x] = compactColor(c)]

Abs(v) == IF v < 0 THEN -v ELSE v

\* a / b rounded toward zero, for b > 0.
TruncDiv(a, b) == IF a >= 0 THEN a \div b ELSE -((-a) \div b)

\* The number of steps of a line: max(|x1 - x0|, |y1 - y0|).
Steps(x0, y0, x1, y1) ==
    IF Abs(x1 - x0) > Abs(y1 - y0) THEN Abs(x1 - x0) ELSE Abs(y1 - y0)

\* The pixels i..steps of the line written on buff, each through drawPixel:
\* x = x0 + round_toward_zero(i / steps * (x1 - x0)), y likewise.
RECURSIVE LineFrom(_, _, _, _, _, _, _, _)
LineFrom(buff, i, steps, x0, y0, x1, y1, c) ==
    IF i > steps THEN buff
    ELSE LineFrom(drawPixel(buff, x0 + TruncDiv(i * (x1 - x0), steps),
                                  y0 + TruncDiv(i * (y1 - y0), steps), c),
                  i + 1, steps, x0, y0, x1, y1, c)

\* drawLine(x0, y0, x1, y1, color).
drawLine(buff, x0, y0, x1, y1, c) ==
    IF Steps(x0, y0, x1, y1) = 0
    THEN drawPixel(buff, x0, y0, c)
    ELSE LineFrom(buff, 0, Steps(x0, y0, x1, y1), x0, y0, x1, y1, c)

\* No drawLine() call yet.
NoLine == [x0 |-> 0, y0 |-> 0, x1 |-> 0, y1 |-> 0, c |-> NoColor, drawn |-> FALSE]

\* End points lines are tried with: outside the canvas, its first two and
\* its last column or row.
LineCoords == {-1, 0, 1, (IF ScreenW < ScreenH THEN ScreenW ELSE ScreenH) - 1}

\* One call of drawLine, the last drawing call of a run.
DrawLine ==
    /\ program = "main"
    /\ ~lastLine.drawn
    /\ \E x0 \in LineCoords, y0 \in LineCoords, x1 \in LineCoords, y1 \in LineCoords,
          c \in Palette :
        /\ lastLine' = [x0 |-> x0, y0 |-> y0, x1 |-> x1, y1 |-> y1, c |-> c, drawn |-> TRUE]
        /\ pixelBuff' = drawLine(pixelBuff, x0, y0, x1, y1, c)
    /\ prevBuff' = pixelBuff
    /\ UNCHANGED <<colorVars, inputVars, buildVars, lastPixel, draws, ub, renderVars, mainVars>>

\* buff[row][col] = v through std::array::operator[], which checks nothing:
\* the canvases the store can leave. In range it writes the pixel. Out of
\* range it is undefined behaviour: the store goes to the address
\* (row * ScreenW + col) ints past the start of the canvas, which is another
\* pixel when that offset is inside the canvas and other memory when it is
\* not, or the store is dropped.
StoreUnchecked(buff, row, col, v) ==
    LET flat == row * ScreenW + col
    IN IF row \in Rows /\ col \in Cols
       THEN {[buff EXCEPT ![row][col] = v]}
       ELSE IF flat >= 0 /\ flat < ScreenW * ScreenH
            THEN {[buff EXCEPT ![flat \div ScreenW][flat % ScreenW] = v], buff}
            ELSE {buff}

\* drawPixel of unnamed/part_000:106-109: pixelBuff[y][x], no bounds check.
drawPixelPart000(buff, x, y, c) == StoreUnchecked(buff, y, x, compactColor(c))

\* drawPixel of the second program, main.cpp:487-490: pixelBuff[x][y].
drawPixelSecond(buff, x, y, c) == StoreUnchecked(buff, x, y, compactColor(c))

InCanvas(x, y) == x \in Cols /\ y \in Rows

\* One call of drawPixel with x and y drawn from S.
DrawPixelIn(S) ==
    /\ draws < MaxDraws
    /\ \E x \in S, y \in S, c \in Palette :
        /\ lastPixel' = [x |-> x, y |-> y, c |-> c]
        /\ \/ /\ program = "main"
              /\ pixelBuff' = drawPixel(pixelBuff, x, y, c)
              /\ ub' = ub
           \/ /\ program = "part000"
              /\ pixelBuff' \in drawPixelPart000(pixelBuff, x, y, c)
              /\ ub' = (ub \/ ~InCanvas(x, y))
           \/ /\ program = "second"
              /\ pixelBuff' \in drawPixelSecond(pixelBuff, x, y, c)
              /\ ub' = (ub \/ ~InCanvas(y, x))
    /\ prevBuff' = pixelBuff
    /\ draws' = draws + 1
    /\ UNCHANGED <<colorVars, inputVars, buildVars, lastLine, renderVars, mainVars>>

DrawPixel == DrawPixelIn(Coords)

(***************************************************************************)
(* The terminal and the render backends (drawBuff).                        *)
(***************************************************************************)
HalfH == ScreenH \div 2

\* Terminal sizes drawBuff is tried with: a single cell, one below and one
\* above the canvas width, one above the canvas height in cells.
RenderSizes ==
    {[cols |-> c, rows |-> r] : c \in {1, ScreenW - 1, ScreenW + 1}, r \in {1, HalfH + 1}}

\* Values an int that was never assigned can hold.
Garbage == {-1, ScreenW + 1}

\* getTerminalSize(w, h) (main.cpp:185-201, part_000:24-47) when the
\* terminal is sz: with ok it assigns w and h, without it leaves them as
\* they were (w0, h0) and returns false.
getTerminalSize(ok, sz, w0, h0) ==
    IF ok THEN [ok |-> TRUE, w |-> sz.cols, h |-> sz.rows]
    ELSE [ok |-> FALSE, w |-> w0, h |-> h0]

Min(a, b) == IF a < b THEN a ELSE b

\* std::min(a, size_t(v)) for an int v: a negative v converts to a value
\* above every canvas dimension a (main.cpp:265-266).
MinSizeT(a, v) == IF v < 0 THEN a ELSE Min(a, v)

\* appendInt of main.cpp:269-280: the characters pushed, as offsets from '0'.
appendInt(v) ==
    IF v >= 100 THEN <<v \div 100, (v \div 10) % 10, v % 10>>
    ELSE IF v >= 10 THEN <<v \div 10, v % 10>>
    ELSE <<v>>

\* "\x1b[48;2;R;G;Bm" (kind "bg") or "\x1b[38;2;R;G;Bm" (kind "fg").
Sgr(kind, c) ==
    [t |-> kind, r |-> appendInt(c.r), g |-> appendInt(c.g), b |-> appendInt(c.b)]

\* The glyph U+2584, lower half block.
Glyph == [t |-> "glyph"]

NoLast == [r |-> -1, g |-> -1, b |-> -1]

\* The inner loop of main.cpp:285-315 from column x on: for each cell the
\* sequences appended to the frame, with lastU and lastL the colours last
\* emitted.
RECURSIVE AnsiCells(_, _, _, _, _, _)
AnsiCells(buff, py, x, cellWidth, lastU, lastL) ==
    IF x >= cellWidth THEN <<>>
    ELSE LET u == unpackColor(buff[py][x])
             l == unpackColor(buff[py + 1][x])
             bg == IF u.r # lastU.r \/ u.g # lastU.g \/ u.b # lastU.b
                   THEN <<Sgr("bg", u)>> ELSE <<>>
             fg == IF l.r # lastL.r \/ l.g # lastL.g \/ l.b # lastL.b
                   THEN <<Sgr("fg", l)>> ELSE <<>>
         IN <<bg \o fg \o <<Glyph>>>>
            \o AnsiCells(buff, py, x + 1, cellWidth,
                         IF bg # <<>> THEN u ELSE lastU,
                         IF fg # <<>> THEN l ELSE lastL)

\* The rows of main.cpp:283-319: the last colours are reset to -1 at the
\* end of every row, each row ends with "\x1b[0m\n".
AnsiRows(buff, cellWidth, cellHeight) ==
    [y \in 1..cellHeight |->
        [cells |-> AnsiCells(buff, (y - 1) * 2, 0, cellWidth, NoLast, NoLast),
         end |-> "reset_nl"]]

\* drawBuff, POSIX branch, main.cpp:262-320, with tw and th (termW, termH) as
\* getTerminalSize left them.
drawBuffAnsi(buff, tw, th) ==
    LET cellHeight == MinSizeT(ScreenH \div 2, th)
        cellWidth == MinSizeT(ScreenW, tw)
    IN [kind |-> "ansi", clear |-> TRUE,
        cellWidth |-> cellWidth, cellHeight |-> cellHeight,
        rows |-> AnsiRows(buff, cellWidth, cellHeight)]

\* drawBuff, POSIX branch, part_000:265-289: every row pair and every
\* column of the canvas, both sequences for every cell.
drawBuffAnsiPart000(buff) ==
    [kind |-> "ansi", clear |-> FALSE,
     cellWidth |-> ScreenW, cellHeight |-> Cardinality({y \in Rows : y % 2 = 0 /\ y + 1 < ScreenH}),
     rows |-> [k \in 1..Cardinality({y \in Rows : y % 2 = 0 /\ y + 1 < ScreenH}) |->
                 [cells |-> [i \in 1..ScreenW |->
                                <<Sgr("bg", unpackColor(buff[(k - 1) * 2][i - 1])),
                                  Sgr("fg", unpackColor(buff[(k - 1) * 2 + 1][i - 1])),
                                  Glyph>>],
                  end |-> "reset_nl"]]]

\* rgbToWinAttr (main.cpp:109-120, part_000:182-194): FOREGROUND_BLUE 1,
\* FOREGROUND_GREEN 2, FOREGROUND_RED 4, FOREGROUND_INTENSITY 8.
rgbToWinAttr(r, g, b) ==
    (IF r > 128 THEN 4 ELSE 0) + (IF g > 128 THEN 2 ELSE 0)
    + (IF b > 128 THEN 1 ELSE 0)
    + (IF r > 200 \/ g > 200 \/ b > 200 THEN 8 ELSE 0)

\* The CHAR_INFO of cell (x, y): main.cpp:249-255, part_000:226-237.
WinCell(buff, x, y) ==
    LET u == unpackColor(buff[y * 2][x])
        l == unpackColor(buff[y * 2 + 1][x])
    IN [char |-> 9604,
        attr |-> rgbToWinAttr(l.r, l.g, l.b) + 16 * rgbToWinAttr(u.r, u.g, u.b)]

\* drawBuff, Windows branch (main.cpp:237-260, part_000:199-261), with maxW
\* and maxH the window size computed from csbi: the cells handed to
\* WriteConsoleOutputW. A negative cellW * cellH makes the vector's
\* construction (or resize) throw, which ends the program.
drawBuffWin(buff, maxW, maxH) ==
    LET h == (ScreenH \div 2) * 2
        cellH == Min(h \div 2, maxH)
        cellW == Min(ScreenW, maxW)
    IN IF cellW * cellH < 0
       THEN [kind |-> "abort"]
       ELSE [kind |-> "win", clear |-> FALSE,
             cellWidth |-> cellW, cellHeight |-> cellH,
             rows |-> [y \in 1..cellH |->
                         [cells |-> [x \in 1..cellW |-> WinCell(buff, x - 1, y - 1)],
                          end |-> "none"]]]

\* drawBuff of the program prog built for plat on canvas buff when the size
\* query inside it (main.cpp:264, main.cpp:239, part_000:202) left w and h.
drawBuff(prog, plat, buff, w, h) ==
    IF plat = "win32" THEN drawBuffWin(buff, w, h)
    ELSE IF prog = "main" THEN drawBuffAnsi(buff, w, h)
    ELSE drawBuffAnsiPart000(buff)

\* The static vector of main.cpp:246 is built once, by the first call, with
\* that call's cellW * cellH; part_000:219-220 resizes it on every call.
WinBufAfter(prog, plat, fr, size) ==
    IF plat # "win32" \/ fr.kind # "win" THEN size
    ELSE IF prog = "main" /\ size >= 0 THEN size
    ELSE fr.cellWidth * fr.cellHeight

\* Cells written past the end of that vector (main.cpp:252).
WinBufOverrun(plat, fr, size) ==
    plat = "win32" /\ fr.kind = "win" /\ fr.cellWidth * fr.cellHeight > size

\* No frame written yet.
NoFrame == [kind |-> "none", queryOk |-> TRUE]

\* One call of drawBuff while the terminal is sz; ok says whether the size
\* query inside it succeeds, gw and gh are what its uninitialised locals
\* hold when it does not.
Present(sz, ok, gw, gh) ==
    LET q == getTerminalSize(ok, sz, gw, gh)
        fr == drawBuff(program, platform, pixelBuff, q.w, q.h)
        size == WinBufAfter(program, platform, fr, winBufSize)
    IN /\ term' = sz
       /\ frame' = fr @@ [queryOk |-> ok]
       /\ winBufSize' = size
       /\ ub' = (ub \/ ~ok \/ WinBufOverrun(platform, fr, size))

\* drawPixel on the pixels of the first columns, before the first frame: the
\* canvases the render backends are tried on.
Paint ==
    /\ frame = NoFrame
    /\ DrawPixelIn(0..1)

\* drawBuff is stateless but for the static vector of the Windows branch of
\* main.cpp: it is tried once, and again after a frame that filled that
\* vector exactly.
DrawBuff ==
    /\ ~ub
    /\ \/ frame = NoFrame
       \/ /\ program = "main" /\ platform = "win32" /\ frame.kind = "win"
          /\ frame.cellWidth * frame.cellHeight = winBufSize
    /\ \E sz \in RenderSizes, ok \in BOOLEAN, gw \in Garbage, gh \in Garbage :
        /\ (ok => gw = -1 /\ gh = -1)
        /\ Present(sz, ok, gw, gh)
    /\ UNCHANGED <<colorVars, inputVars, buildVars, pixelBuff, prevBuff, lastPixel, lastLine, draws, mainVars>>

(***************************************************************************)
(* Raw mode, std::cout, the frame pacer.                                   *)
(***************************************************************************)

\* enableRawInput: main.cpp:128-134 saves the settings in origTerm, clears
\* ICANON and ECHO and makes stdin non-blocking; main.cpp:48-53 clears
\* ENABLE_LINE_INPUT and ENABLE_ECHO_INPUT and saves nothing.
enableRawInput(plat, t, saved) ==
    IF plat = "posix"
    THEN [tty |-> [icanon |-> FALSE, echo |-> FALSE, nonblock |-> TRUE],
          origTerm |-> [icanon |-> t.icanon, echo |-> t.echo]]
    ELSE [tty |-> [t EXCEPT !.icanon = FALSE, !.echo = FALSE],
          origTerm |-> saved]

\* restoreTerminal (main.cpp:135): tcsetattr with origTerm.
restoreTerminal(t, saved) ==
    [t EXCEPT !.icanon = saved.icanon, !.echo = saved.echo]

\* ttyLog after the call op.
Logged(op) ==
    [ops |-> Append(ttyLog.ops, op),
     pre |-> IF op = "enable" THEN tty ELSE ttyLog.pre,
     prev |-> tty]

\* enableRawInput() called on its own.
EnableRawInput ==
    /\ Len(ttyLog.ops) < MaxTtyCalls
    /\ LET raw == enableRawInput(platform, tty, origTerm)
       IN /\ tty' = raw.tty
          /\ origTerm' = raw.origTerm
    /\ ttyLog' = Logged("enable")
    /\ UNCHANGED <<colorVars, inputVars, buildVars, canvasVars, renderVars, loopVars,
                   restoreCount, paceVars, outVars>>

\* restoreTerminal() called on its own (POSIX build).
RestoreTerminal ==
    /\ Len(ttyLog.ops) < MaxTtyCalls
    /\ platform = "posix"
    /\ tty' = restoreTerminal(tty, origTerm)
    /\ restoreCount' = restoreCount + 1
    /\ ttyLog' = Logged("restore")
    /\ UNCHANGED <<colorVars, inputVars, buildVars, canvasVars, renderVars, loopVars,
                   origTerm, paceVars, outVars>>

\* Writing the items s to std::cout; nl says whether s ends a line. What is
\* buffered and what reaches the terminal depends on how the runtime buffers
\* standard output.
Cout(mode, buf, o, s, nl) ==
    IF mode = "none" \/ (mode = "line" /\ nl)
    THEN [coutBuf |-> <<>>, out |-> o \o buf \o s]
    ELSE [coutBuf |-> buf \o s, out |-> o]

\* write(STDOUT_FILENO, ...) and WriteConsoleOutputW go to the terminal at once.
WriteOut(o, s) == o \o s

\* limitFPS(15) of main.cpp:386.
TargetFps == 15

FrameInterval == 1000000000 \div TargetFps

\* limitFPS resynchronising a deadline that has passed to the current time.
limitFPSMutResync(started, deadline, t) ==
    LET d == (IF started /\ deadline >= t THEN deadline ELSE t) + FrameInterval
    IN [nextFrame |-> d, now |-> IF d > t THEN d ELSE t]

\* limitFPS sleeping until the deadline it found and advancing it afterwards.
limitFPSMutSleepFirst(started, deadline, t) ==
    LET d == IF started THEN deadline ELSE t
    IN [nextFrame |-> d + FrameInterval, now |-> IF d > t THEN d ELSE t]

\* limitFPS (main.cpp:206-211) called at time t: the static deadline is
\* initialised to t by the first call, advanced by one interval, and the
\* call returns at the deadline, or at once when the deadline has passed.
limitFPS(started, deadline, t) ==
    LET d == (IF started THEN deadline ELSE t) + FrameInterval
    IN [nextFrame |-> d, now |-> IF d > t THEN d ELSE t]

\* No limitFPS() call yet.
NoWait == [calls |-> 0, first |-> 0, at |-> 0, deadline |-> 0, ret |-> 0,
           idle |-> TRUE, worked |-> FALSE]

\* One call of limitFPS(15) at the time now.
Pace ==
    LET p == limitFPS(paceStarted, nextFrame, now)
    IN /\ nextFrame' = p.nextFrame
       /\ now' = p.now
       /\ paceStarted' = TRUE
       /\ paceLog' = [calls |-> paceLog.calls + 1,
                      first |-> IF paceStarted THEN paceLog.first ELSE now,
                      at |-> now,
                      deadline |-> IF paceStarted THEN nextFrame ELSE now,
                      ret |-> p.now,
                      idle |-> paceLog.idle,
                      worked |-> FALSE]

\* How long the caller works between two limitFPS() calls: half an interval,
\* two intervals, more than three.
WorkTimes == {FrameInterval \div 2, 2 * FrameInterval, 3 * FrameInterval + 1}

\* The caller works for d nanoseconds.
Work ==
    /\ ~paceLog.worked
    /\ paceLog.calls < MaxWaits
    /\ \E d \in WorkTimes :
        /\ now' = now + d
        /\ paceLog' = [paceLog EXCEPT !.worked = TRUE,
                                      !.idle = (paceLog.idle /\ ~paceStarted)]
    /\ UNCHANGED <<colorVars, inputVars, buildVars, canvasVars, renderVars, loopVars,
                   ttyVars, nextFrame, paceStarted, outVars>>

\* limitFPS(15) called on its own.
LimitFPS ==
    /\ paceLog.calls < MaxWaits
    /\ Pace
    /\ UNCHANGED <<colorVars, inputVars, buildVars, canvasVars, renderVars, loopVars,
                   ttyVars, outVars>>

(***************************************************************************)
(* Console input of the Windows build (main.cpp:55-107).                   *)
(***************************************************************************)

\* Input records the console delivers: type ("key" or another event),
\* bKeyDown, uChar.AsciiChar, wVirtualKeyCode. Virtual-key codes: VK_BACK 8,
\* VK_TAB 9, VK_RETURN 13, VK_ESCAPE 27, VK_LEFT 37, VK_UP 38, VK_RIGHT 39,
\* VK_DOWN 40.
WinRecords ==
    { [type |-> "key", down |-> TRUE, ascii |-> 97, vk |-> 65],
      [type |-> "key", down |-> TRUE, ascii |-> 27, vk |-> 27],
      [type |-> "key", down |-> TRUE, ascii |-> 0, vk |-> 27],
      [type |-> "key", down |-> TRUE, ascii |-> 0, vk |-> 38],
      [type |-> "key", down |-> FALSE, ascii |-> 0, vk |-> 27],
      [type |-> "mouse", down |-> FALSE, ascii |-> 0, vk |-> 0] }

\* switch (key.wVirtualKeyCode) of main.cpp:73-101
WinKey(vk) ==
    CASE vk = 38 -> Key("Up")
      [] vk = 40 -> Key("Down")
      [] vk = 37 -> Key("Left")
      [] vk = 39 -> Key("Right")
      [] vk = 13 -> Key("Enter")
      [] vk = 27 -> Key("Escape")
      [] vk = 8 -> Key("Backspace")
      [] vk = 9 -> Key("Tab")
      [] OTHER -> Key("Unknown")

\* The for loop of main.cpp:64-105 over the records that were read.
RECURSIVE pollInputWin(_)
pollInputWin(recs) ==
    IF recs = <<>> THEN <<>>
    ELSE LET rec == Head(recs)
             ev == IF rec.type = "key" /\ rec.down
                   THEN (IF rec.ascii # 0 THEN <<CharKey(rec.ascii)>> ELSE <<WinKey(rec.vk)>>)
                   ELSE <<>>
         IN ev \o pollInputWin(Tail(recs))

(***************************************************************************)
(* main() of main.cpp:324-392 and of unnamed/part_000:293-320.             *)
(***************************************************************************)

\* Terminal sizes the loops are tried with: one below and at what a full
\* canvas needs (300 columns, 150 rows in the source).
LoopSizes ==
    {[cols |-> c, rows |-> r] : c \in {ScreenW - 1, ScreenW}, r \in {HalfH - 1, HalfH}}

\* Bytes typed while a loop runs, at most two per read.
LoopChunks == UNION {[1..k -> {ESC, LBRACKET, 65}] : k \in 0..2}

\* Console records delivered while a loop runs, at most two per poll: a
\* character key and an Escape key-down without a character.
LoopRecords ==
    UNION {[1..k -> {r \in WinRecords : r.down /\ r.ascii \in {0, 97} /\ r.vk \in {27, 65}}]
              : k \in 0..2}

\* A size query that fails tells nothing about the terminal: the model
\* leaves the terminal as it was at the query before.
QueryCases == {c \in [sz : LoopSizes, ok : BOOLEAN] : c.ok \/ c.sz = term}

LogSize(q) == [op |-> "size", ok |-> q.ok, w |-> q.w, h |-> q.h]
Log(op) == [op |-> op, ok |-> TRUE, w |-> 0, h |-> 0]

\* main.cpp:325-335 and part_000:298-301: atexit(restoreTerminal) (POSIX
\* build of main.cpp only), initializeTerminal(), enableRawInput() (main.cpp
\* only), the canvas and the first drawPixel calls.
Start ==
    /\ pc = "start"
    /\ program \in {"main", "part000"}
    /\ LET ctl == IF platform = "posix" THEN <<"enter_alt", "hide_cursor">> ELSE <<>>
           co == Cout(coutMode, coutBuf, out, ctl, FALSE)
           raw == IF program = "main" THEN enableRawInput(platform, tty, origTerm)
                  ELSE [tty |-> tty, origTerm |-> origTerm]
       IN /\ coutBuf' = co.coutBuf
          /\ out' = co.out
          /\ tty' = raw.tty
          /\ origTerm' = raw.origTerm
          /\ ttyLog' = IF program = "main" THEN Logged("enable") ELSE ttyLog
    /\ IF program = "main"
       THEN pixelBuff' =
                drawPixel(drawPixel(drawPixel(drawPixel(EmptyScreen,
                    0, 0, Red), 0, 2, Green), 2, 0, Blue), 0, 4, Blue)
       ELSE pixelBuff' \in drawPixelPart000(EmptyScreen, 0, 0, Red)
    /\ pc' = "top"
    /\ UNCHANGED <<colorVars, inputVars, buildVars, prevBuff, lastPixel, lastLine, draws, ub,
                   renderVars, running, termW, termH, sizeKnown, tickLog, lastTick,
                   ticks, escapeSeen, restoreCount, paceVars, coutMode>>

\* main.cpp:340-346: the while test and the size check. A terminal that is
\* known to be too small ends the iteration with continue.
TickSize ==
    /\ pc = "top" /\ program = "main" /\ running
    /\ ticks < MaxTicks
    /\ \E c \in QueryCases :
        LET sz == c.sz
            ok == c.ok
            q == getTerminalSize(ok, sz, termW, termH)
            small == q.ok /\ (q.w < ScreenW \/ q.h < HalfH)
        IN /\ term' = sz
           /\ termW' = q.w
           /\ termH' = q.h
           /\ sizeKnown' = (sizeKnown \/ ok)
           /\ tickLog' = IF small THEN <<>> ELSE <<LogSize(q)>>
           /\ lastTick' = IF small THEN <<LogSize(q)>> ELSE lastTick
           /\ pc' = IF small THEN "top" ELSE "poll"
    /\ ticks' = ticks + 1
    /\ UNCHANGED <<colorVars, inputVars, buildVars, canvasVars, frame, winBufSize,
                   running, escapeSeen, ttyVars, paceVars, outVars>>

\* What main.cpp:348-383 does with the events ks: every event prints a line,
\* KeyType::Escape clears running.
HasEscape(ks) == \E i \in 1..Len(ks) : ks[i] = Key("Escape")

Handle(ks) ==
    LET co == Cout(coutMode, coutBuf, out, [i \in 1..Len(ks) |-> "text"], TRUE)
    IN /\ running' = (running /\ ~HasEscape(ks))
       /\ escapeSeen' = (escapeSeen \/ HasEscape(ks))
       /\ coutBuf' = IF ks = <<>> THEN coutBuf ELSE co.coutBuf
       /\ out' = IF ks = <<>> THEN out ELSE co.out
       /\ tickLog' = Append(tickLog, Log("poll"))
       /\ pc' = "draw"

\* main.cpp:348-383, POSIX build.
TickPoll ==
    /\ pc = "poll" /\ program = "main" /\ platform = "posix"
    /\ \E ch \in LoopChunks :
        LET res == pollInput(inputBuffer, ch)
        IN /\ Len(ch) <= MaxBytes - nread
           /\ inputBuffer' = res.buf
           /\ keys' = res.keys
           /\ chunk' = ch
           /\ preBuffer' = inputBuffer
           /\ nread' = nread + Len(ch)
           /\ Handle(res.keys)
    /\ polls' = polls + 1
    /\ UNCHANGED <<colorVars, buildVars, canvasVars, renderVars, termW, termH,
                   sizeKnown, lastTick, ticks, ttyVars, paceVars, coutMode>>

\* main.cpp:348-383, Windows build.
TickPollWin ==
    /\ pc = "poll" /\ program = "main" /\ platform = "win32"
    /\ \E recs \in LoopRecords :
        /\ Len(recs) <= MaxBytes - nread
        /\ keys' = pollInputWin(recs)
        /\ nread' = nread + Len(recs)
        /\ Handle(pollInputWin(recs))
    /\ polls' = polls + 1
    /\ UNCHANGED <<colorVars, inputBuffer, chunk, preBuffer, buildVars, canvasVars,
                   renderVars, termW, termH, sizeKnown, lastTick, ticks, ttyVars,
                   paceVars, coutMode>>

\* drawBuff(*pixelBuff) of main.cpp:385 and part_000:313. The POSIX branch of
\* main.cpp writes the frame with write(2), that of part_000 through
\* std::cout; a frame ends with a newline.
TickDraw ==
    /\ pc = "draw"
    /\ \E c \in QueryCases, gw \in Garbage, gh \in Garbage :
        /\ (c.ok => gw = -1 /\ gh = -1)
        /\ Present(c.sz, c.ok, gw, gh)
    /\ LET co == Cout(coutMode, coutBuf, out, <<"frame">>, TRUE)
       IN IF program = "part000" /\ platform = "posix"
          THEN coutBuf' = co.coutBuf /\ out' = co.out
          ELSE /\ coutBuf' = coutBuf
               /\ out' = IF frame'.kind = "abort" THEN out
                         ELSE IF platform = "posix" THEN WriteOut(out, <<"clear_home", "frame">>)
                         ELSE WriteOut(out, <<"frame">>)
    /\ tickLog' = IF frame'.kind = "abort" THEN tickLog ELSE Append(tickLog, Log("present"))
    /\ pc' = IF frame'.kind = "abort" THEN "aborted" ELSE "pace"
    /\ UNCHANGED <<colorVars, inputVars, buildVars, pixelBuff, prevBuff, lastPixel, lastLine, draws,
                   running, termW, termH, sizeKnown, lastTick, ticks, escapeSeen,
                   ttyVars, paceVars, coutMode>>

\* limitFPS(15) of main.cpp:386 and part_000:309,314: it ends the iteration.
TickPace ==
    /\ pc = "pace"
    /\ Pace
    /\ lastTick' = Append(tickLog, Log("pace"))
    /\ tickLog' = <<>>
    /\ pc' = "top"
    /\ UNCHANGED <<colorVars, inputVars, buildVars, canvasVars, renderVars,
                   running, termW, termH, sizeKnown, ticks, escapeSeen,
                   ttyVars, outVars>>

\* part_000:303-311: the while test, the size query, whose result is not
\* looked at, and the size check, which reads terminalWidth and
\* terminalHeight whether or not they were ever assigned.
TickSizePart000 ==
    /\ pc = "top" /\ program = "part000" /\ running
    /\ ticks < MaxTicks
    /\ \E c \in QueryCases, gw \in Garbage, gh \in Garbage :
        LET sz == c.sz
            ok == c.ok
            q == getTerminalSize(ok, sz,
                                 IF sizeKnown THEN termW ELSE gw,
                                 IF sizeKnown THEN termH ELSE gh)
            small == q.w < ScreenW \/ q.h < HalfH
        IN /\ (ok \/ sizeKnown) => (gw = -1 /\ gh = -1)
           /\ term' = sz
           /\ termW' = q.w
           /\ termH' = q.h
           /\ sizeKnown' = (sizeKnown \/ ok)
           /\ ub' = (ub \/ (~ok /\ ~sizeKnown))
           /\ tickLog' = <<LogSize(q)>>
           /\ pc' = IF small THEN "pace" ELSE "draw"
    /\ ticks' = ticks + 1
    /\ UNCHANGED <<colorVars, inputVars, buildVars, pixelBuff, prevBuff, lastPixel, lastLine, draws,
                   frame, winBufSize, running, lastTick, escapeSeen,
                   ttyVars, paceVars, outVars>>

\* main.cpp:389-392 once running is false: deinitializeTerminal(), return 0,
\* and the handlers registered with atexit, which flushes std::cout too.
Exit ==
    /\ pc = "top" /\ ~running
    /\ LET ctl == IF platform = "posix" THEN <<"show_cursor", "leave_alt">> ELSE <<>>
       IN /\ out' = out \o coutBuf \o ctl
          /\ coutBuf' = <<>>
    /\ IF program = "main" /\ platform = "posix"
       THEN /\ tty' = restoreTerminal(tty, origTerm)
            /\ restoreCount' = restoreCount + 1
            /\ ttyLog' = Logged("restore")
       ELSE UNCHANGED <<tty, restoreCount, ttyLog>>
    /\ pc' = "done"
    /\ UNCHANGED <<colorVars, inputVars, buildVars, canvasVars, renderVars,
                   running, termW, termH, sizeKnown, tickLog, lastTick, ticks,
                   escapeSeen, origTerm, paceVars, coutMode>>

(***************************************************************************)
(* Initial state and specifications.                                       *)
(***************************************************************************)
\* The settings a terminal can have when the program starts.
TtySettings == [icanon : BOOLEAN, echo : BOOLEAN, nonblock : BOOLEAN]

\* The settings of a terminal in its usual state: line-buffered, echoing,
\* blocking reads.
Cooked == [icanon |-> TRUE, echo |-> TRUE, nonblock |-> FALSE]

Init ==
    /\ color = NoColor
    /\ packed = 0
    /\ rgb = NoColor
    /\ colorPc = "idle"
    /\ inputBuffer = <<>>
    /\ keys = <<>>
    /\ chunk = <<>>
    /\ preBuffer = <<>>
    /\ nread = 0
    /\ polls = 0
    /\ program \in {"main", "part000", "second"}
    /\ platform \in {"posix", "win32"}
    /\ pixelBuff = EmptyScreen
    /\ prevBuff = EmptyScreen
    /\ lastPixel = [x |-> 0, y |-> 0, c |-> NoColor]
    /\ lastLine = NoLine
    /\ draws = 0
    /\ ub = FALSE
    /\ term \in LoopSizes
    /\ frame = NoFrame
    /\ winBufSize = -1
    /\ pc = "start"
    /\ running = TRUE
    /\ termW = 0
    /\ termH = 0
    /\ sizeKnown = FALSE
    /\ tickLog = <<>>
    /\ lastTick = <<>>
    /\ ticks = 0
    /\ escapeSeen = FALSE
    /\ restoreCount = 0
    /\ tty \in TtySettings
    /\ ttyLog = [ops |-> <<>>, pre |-> tty, prev |-> tty]
    /\ origTerm = [icanon |-> FALSE, echo |-> FALSE]
    /\ nextFrame = 0
    /\ paceStarted = FALSE
    /\ now = 0
    /\ paceLog = NoWait
    /\ coutMode \in {"none", "line", "full"}
    /\ coutBuf = <<>>
    /\ out = <<>>

\* The terminal the specifications that do not run a main loop start with.
FullTerm == [cols |-> ScreenW, rows |-> HalfH]

InitMain ==
    /\ Init
    /\ program = "main" /\ platform = "posix" /\ coutMode = "line" /\ term = FullTerm
    /\ tty = Cooked

InitTty ==
    /\ Init
    /\ program = "main" /\ platform = "posix" /\ coutMode = "line" /\ term = FullTerm

NextTty == EnableRawInput \/ RestoreTerminal

SpecTty == InitTty /\ [][NextTty]_vars

\* drawPixel on the first pixels, before the line is drawn.
PaintLine ==
    /\ ~lastLine.drawn
    /\ DrawPixelIn(0..1)

NextLine == PaintLine \/ DrawLine

SpecLine == InitMain /\ [][NextLine]_vars

NextPace == Work \/ LimitFPS

SpecPace == InitMain /\ [][NextPace]_vars

NextColor == CompactColor \/ UnpackColor

SpecColor == InitMain /\ [][NextColor]_vars

NextInput == PollInput

SpecInput == InitMain /\ [][NextInput]_vars

NextCanvas == DrawPixel

InitCanvas ==
    /\ Init
    /\ platform = "posix" /\ coutMode = "line" /\ term = FullTerm /\ tty = Cooked

SpecCanvas == InitCanvas /\ [][NextCanvas]_vars

NextRender == Paint \/ DrawBuff

InitRender ==
    /\ Init
    /\ coutMode = "line" /\ term = FullTerm /\ tty = Cooked
    /\ \/ program = "main"
       \/ program = "part000" /\ platform = "posix"

SpecRender == InitRender /\ [][NextRender]_vars

NextLoop ==
    \/ Start
    \/ TickSize
    \/ TickPoll
    \/ TickPollWin
    \/ TickDraw
    \/ TickPace
    \/ TickSizePart000
    \/ Exit

InitLoop ==
    /\ Init
    /\ tty = Cooked
    /\ \/ program = "main"
       \/ program = "part000" /\ platform = "win32"

SpecLoop == InitLoop /\ [][NextLoop]_vars

(***************************************************************************)
(* Properties of colour packing.                                           *)
(***************************************************************************)

\* C8: for all channel values r, g, b in [0,255], unpacking the packed
\* integer r*1000000 + g*1000 + b recovers exactly (r, g, b).
C8_UnpackRecoversChannels ==
    colorPc = "unpacked" =>
        /\ packed = color.r * 1000000 + color.g * 1000 + color.b
        /\ rgb.r = color.r
        /\ rgb.g = color.g
        /\ rgb.b = color.b

C8_Witness ==
    /\ colorPc = "unpacked"
    /\ color = [r |-> 255, g |-> 200, b |-> 129]
    /\ rgb = [r |-> 255, g |-> 200, b |-> 129]

(***************************************************************************)
(* Properties of the raw input decoder.                                    *)
(***************************************************************************)

\* The queue the last pollInput() decoded: what was pending plus what it read.
Queued == preBuffer \o chunk

NoEsc(s) == \A i \in 1..Len(s) : s[i] # ESC

\* The key a byte that starts no escape sequence stands for, as the
\* specification lists it.
ExpectedPlain(c) ==
    CASE c = 13 \/ c = 10 -> [type |-> "Enter", ch |-> 0]
      [] c = 127 \/ c = 8 -> [type |-> "Backspace", ch |-> 0]
      [] c = 9 -> [type |-> "Tab", ch |-> 0]
      [] OTHER -> [type |-> "Char", ch |-> c]

\* The key the final byte of ESC '[' x stands for, as the specification
\* lists it.
ExpectedArrow(x) ==
    CASE x = 65 -> "Up"
      [] x = 66 -> "Down"
      [] x = 67 -> "Right"
      [] x = 68 -> "Left"
      [] OTHER -> "Unknown"

\* C1: ESC '[' 'A' split over two consecutive polls (ESC | '[' 'A', or
\* ESC '[' | 'A'), starting from an empty pending queue: the first poll
\* returns no event and keeps the received bytes queued, the second returns
\* exactly one event, Up, and leaves the queue empty.
C1_SplitArrowResumes ==
    /\ (polls >= 1 /\ preBuffer = <<>> /\ chunk \in {<<27>>, <<27, 91>>})
          => (keys = <<>> /\ inputBuffer = chunk)
    /\ (polls >= 2 /\ ( \/ (preBuffer = <<27>> /\ chunk = <<91, 65>>)
                        \/ (preBuffer = <<27, 91>> /\ chunk = <<65>>) ))
          => (keys = << [type |-> "Up", ch |-> 0] >> /\ inputBuffer = <<>>)

C1_Witness ==
    /\ polls = 2
    /\ preBuffer = <<27>>
    /\ chunk = <<91, 65>>
    /\ keys = << [type |-> "Up", ch |-> 0] >>
    /\ inputBuffer = <<>>

\* C2: when the queue a poll decodes starts with ESC '[' x, the poll consumes
\* exactly these three bytes for exactly one event: Up, Down, Right, Left for
\* x = 'A', 'B', 'C', 'D' and Unknown for any other x. The byte after x, if
\* any, starts the next key.
C2_EscapeSequenceDecoded ==
    (polls >= 1 /\ Len(Queued) >= 3 /\ Queued[1] = 27 /\ Queued[2] = 91) =>
        LET rest == SubSeq(Queued, 4, Len(Queued))
        IN /\ Len(keys) >= 1
           /\ keys[1] = [type |-> ExpectedArrow(Queued[3]), ch |-> 0]
           /\ Len(inputBuffer) <= Len(rest)
           /\ inputBuffer = SubSeq(rest, Len(rest) - Len(inputBuffer) + 1, Len(rest))
           /\ (rest = <<>> \/ (rest[1] = 27 /\ Len(rest) < 3))
                 => (Len(keys) = 1 /\ inputBuffer = rest)
           /\ (rest # <<>> /\ rest[1] # 27)
                 => (Len(keys) >= 2 /\ keys[2] = ExpectedPlain(rest[1]))

C2_Witness ==
    /\ polls >= 1
    /\ Queued = <<27, 91, 90>>
    /\ keys = << [type |-> "Unknown", ch |-> 0] >>
    /\ inputBuffer = <<>>

\* C3 as stated: for any chunk of bytes containing no ESC, poll() returns
\* exactly one key event per byte, in input byte order, and the pending
\* queue is empty afterwards.
C3_OneEventPerByteAnyQueue ==
    (polls >= 1 /\ chunk # <<>> /\ NoEsc(chunk)) =>
        /\ Len(keys) = Len(chunk)
        /\ \A i \in 1..Len(chunk) : keys[i] = ExpectedPlain(chunk[i])
        /\ inputBuffer = <<>>

\* C3 as amended: for any chunk of bytes containing no ESC that is delivered
\* while the pending queue is empty, poll() returns exactly one key event per
\* byte, in input byte order (CR or LF Enter, DEL or BS Backspace, TAB Tab,
\* any other byte a literal character), and the pending queue is empty
\* afterwards.
C3_OneEventPerByte ==
    (polls >= 1 /\ preBuffer = <<>> /\ NoEsc(chunk)) =>
        /\ Len(keys) = Len(chunk)
        /\ \A i \in 1..Len(chunk) : keys[i] = ExpectedPlain(chunk[i])
        /\ inputBuffer = <<>>

C3_Witness ==
    /\ polls >= 1
    /\ preBuffer = <<>>
    /\ chunk = <<8, 97, 10, 9>>
    /\ keys = << [type |-> "Backspace", ch |-> 0], [type |-> "Char", ch |-> 97],
                 [type |-> "Enter", ch |-> 0], [type |-> "Tab", ch |-> 0] >>
    /\ inputBuffer = <<>>

\* C19: after every poll() the pending queue is either empty or holds only
\* an unresolved escape prefix of at most two bytes (ESC alone, or ESC and
\* one more byte); no byte stays queued once two further bytes have arrived.
C19_QueueHoldsShortPrefix ==
    polls >= 1 =>
        \/ inputBuffer = <<>>
        \/ Len(inputBuffer) <= 2 /\ inputBuffer[1] = ESC

\* C19, what does hold: a queue that is not empty starts with the held ESC,
\* and when two or more bytes follow it the first of them is not '['.
C19_QueueStartsWithEsc ==
    (polls >= 1 /\ inputBuffer # <<>>) =>
        /\ inputBuffer[1] = ESC
        /\ Len(inputBuffer) >= 3 => inputBuffer[2] # LBRACKET

\* C20: the POSIX decoder returns no Escape key event for any input byte
\* stream and any chunking, so in the POSIX main loop the running flag is
\* never cleared and the loop never exits.
C20_PosixNeverExits ==
    platform = "posix" =>
        /\ \A i \in 1..Len(keys) : keys[i].type # "Escape"
        /\ running
        /\ ~escapeSeen
        /\ pc # "done"

\* The POSIX loop has read a lone ESC byte, the byte the Escape key sends,
\* and an ESC that two more bytes had followed, and goes on.
C20_Witness ==
    /\ platform = "posix" /\ program = "main"
    /\ pc = "draw" /\ polls >= 2 /\ running
    /\ \E i \in 1..Len(preBuffer \o chunk) : (preBuffer \o chunk)[i] = ESC
    /\ Len(preBuffer \o chunk) >= 3

(***************************************************************************)
(* Properties of the canvas and of the render backends.                    *)
(***************************************************************************)

\* C9: setPixel(x, y, color) with x outside [0,W) or y outside [0,H) leaves
\* every canvas pixel unchanged; with (x, y) in range it changes only the
\* pixel at column x, row y, to the packed colour.
C9_SetPixelFrame ==
    draws >= 1 =>
        LET x == lastPixel.x
            y == lastPixel.y
            c == lastPixel.c
        IN IF x < 0 \/ x >= ScreenW \/ y < 0 \/ y >= ScreenH
           THEN pixelBuff = prevBuff
           ELSE /\ pixelBuff[y][x] = c.r * 1000000 + c.g * 1000 + c.b
                /\ \A yy \in Rows, xx \in Cols :
                      (xx # x \/ yy # y) => pixelBuff[yy][xx] = prevBuff[yy][xx]

\* C9 on the drawPixel of main.cpp:212-216 alone.
C9_SetPixelFrameMain == (program = "main") => C9_SetPixelFrame

\* The rows and the cells per row of the last frame.
FrameHeight == Len(frame.rows)
FrameWidths == {Len(frame.rows[y].cells) : y \in 1..Len(frame.rows)}

\* C10: present() renders exactly min(W, columns) cells per row and
\* min(H/2, rows) rows for every terminal size (columns, rows).
C10_RenderClipsToTerminal ==
    frame.kind \in {"ansi", "win"} =>
        /\ FrameHeight = Min(ScreenH \div 2, term.rows)
        /\ FrameWidths \subseteq {Min(ScreenW, term.cols)}

\* C10 on the drawBuff of main.cpp:235-322 when its size query succeeds.
C10_RenderClipsWhenQueried ==
    (program = "main" /\ frame.queryOk) => C10_RenderClipsToTerminal

\* The packed value of the colour c.
PackedOf(c) == c.r * 1000000 + c.g * 1000 + c.b

\* C17: drawLine(x0, y0, x1, y1, color) with steps > 0 writes both end
\* points with the colour whenever they are inside the canvas, and with
\* steps = 0 produces the same canvas as a single setPixel(x0, y0, color).
C17_LineEndpoints ==
    lastLine.drawn =>
        LET x0 == lastLine.x0
            y0 == lastLine.y0
            x1 == lastLine.x1
            y1 == lastLine.y1
        IN IF x0 = x1 /\ y0 = y1
           THEN \A y \in Rows, x \in Cols :
                    pixelBuff[y][x] = IF x = x0 /\ y = y0 THEN PackedOf(lastLine.c)
                                      ELSE prevBuff[y][x]
           ELSE /\ (x0 \in Cols /\ y0 \in Rows) => pixelBuff[y0][x0] = PackedOf(lastLine.c)
                /\ (x1 \in Cols /\ y1 \in Rows) => pixelBuff[y1][x1] = PackedOf(lastLine.c)

\* drawLine(0, 0, W - 1, 0, C) on a canvas that is not empty, and a line
\* with one end point outside the canvas.
C17_Witness ==
    /\ lastLine.drawn
    /\ draws >= 1
    /\ \/ /\ lastLine.x0 = 0 /\ lastLine.y0 = 0 /\ lastLine.x1 = ScreenW - 1 /\ lastLine.y1 = 0
          /\ \A x \in Cols : pixelBuff[0][x] = PackedOf(lastLine.c)
       \/ /\ lastLine.x0 = -1 /\ lastLine.y0 = 1 /\ lastLine.x1 = 1 /\ lastLine.y1 = 0
          /\ pixelBuff[0][1] = PackedOf(lastLine.c)

\* Whether cell i of frame row y carries a sequence of the kind k.
HasSgr(y, i, k) ==
    \E j \in 1..Len(frame.rows[y].cells[i]) : frame.rows[y].cells[i][j].t = k

\* The number of sequences of the kind k in frame row y.
SgrCount(y, k) ==
    Cardinality({i \in 1..Len(frame.rows[y].cells) : HasSgr(y, i, k)})

\* C11: in the ANSI backend a background (foreground) SGR sequence is
\* emitted for a cell if and only if the cell is the first of its row or
\* its upper (lower) pixel differs from that of the preceding cell of the
\* row; so a row of a one-colour canvas carries exactly one background and
\* one foreground sequence.
C11_SgrElision ==
    frame.kind = "ansi" =>
        \A y \in 1..Len(frame.rows) :
            /\ \A i \in 1..Len(frame.rows[y].cells) :
                /\ HasSgr(y, i, "bg") <=>
                      (i = 1 \/ pixelBuff[(y - 1) * 2][i - 1] # pixelBuff[(y - 1) * 2][i - 2])
                /\ HasSgr(y, i, "fg") <=>
                      (i = 1 \/ pixelBuff[(y - 1) * 2 + 1][i - 1] # pixelBuff[(y - 1) * 2 + 1][i - 2])
            /\ (pixelBuff = EmptyScreen /\ Len(frame.rows[y].cells) > 0) =>
                  SgrCount(y, "bg") = 1 /\ SgrCount(y, "fg") = 1

\* C11 on the drawBuff of main.cpp:262-320 alone.
C11_SgrElisionMain == (program = "main") => C11_SgrElision

\* The number the digits ds, as appendInt pushes them, spell.
NumOf(ds) ==
    IF Len(ds) = 1 THEN ds[1]
    ELSE IF Len(ds) = 2 THEN 10 * ds[1] + ds[2]
    ELSE 100 * ds[1] + 10 * ds[2] + ds[3]

\* The colour the sequence of the kind k last emitted in row y of the ANSI
\* frame fr up to cell i sets: the colour the terminal shows cell i in.
ShownColor(fr, y, i, k) ==
    LET row == fr.rows[y].cells
        has(j) == \E n \in 1..Len(row[j]) : row[j][n].t = k
        last == CHOOSE j \in 1..i : has(j) /\ \A jj \in (j + 1)..i : ~has(jj)
        sgr == CHOOSE e \in {row[last][n] : n \in 1..Len(row[last])} : e.t = k
    IN [r |-> NumOf(sgr.r), g |-> NumOf(sgr.g), b |-> NumOf(sgr.b)]

\* The channels of the packed pixel value p.
ChannelsOf(p) == [r |-> p \div 1000000, g |-> (p \div 1000) % 1000, b |-> p % 1000]

\* The console attribute of a colour: red 4, green 2, blue 1 above 128,
\* intensity 8 above 200.
AttrOf(c) ==
    (IF c.r > 128 THEN 4 ELSE 0) + (IF c.g > 128 THEN 2 ELSE 0) + (IF c.b > 128 THEN 1 ELSE 0)
    + (IF c.r > 200 \/ c.g > 200 \/ c.b > 200 THEN 8 ELSE 0)

\* The cells of the frame fr: column, row, background and foreground, the
\* colours reduced to console attributes, the glyph as its code point.
CellsOf(fr) ==
    IF fr.kind = "ansi"
    THEN {[x |-> i - 1, y |-> y - 1, glyph |-> 9604,
           bg |-> AttrOf(ShownColor(fr, y, i, "bg")),
           fg |-> AttrOf(ShownColor(fr, y, i, "fg"))] :
             y \in 1..Len(fr.rows), i \in 1..fr.cellWidth}
    ELSE IF fr.kind = "win"
    THEN {[x |-> i - 1, y |-> y - 1, glyph |-> fr.rows[y].cells[i].char,
           bg |-> fr.rows[y].cells[i].attr \div 16,
           fg |-> fr.rows[y].cells[i].attr % 16] :
             y \in 1..Len(fr.rows), i \in 1..fr.cellWidth}
    ELSE {}

\* The cells the canvas maps to on a terminal of the size sz: cell (x, y)
\* from the pixels (x, 2y), background, and (x, 2y + 1), foreground.
MappedCells(sz) ==
    {[x |-> x, y |-> y, glyph |-> 9604,
      bg |-> AttrOf(ChannelsOf(pixelBuff[2 * y][x])),
      fg |-> AttrOf(ChannelsOf(pixelBuff[2 * y + 1][x]))] :
        x \in 0..(Min(ScreenW, sz.cols) - 1), y \in 0..(Min(ScreenH \div 2, sz.rows) - 1)}

\* The build the program was not built for.
OtherPlatform == IF platform = "posix" THEN "win32" ELSE "posix"

\* C18: both render backends use the same cell mapping, cell (x, y) from the
\* canvas pixels (x, 2y), background, and (x, 2y + 1), foreground, of the
\* lower-half-block glyph; for every canvas and terminal size the two
\* backends render the same set of cells.
C18_BackendsRenderSameCells ==
    (program = "main" /\ frame.kind # "none") =>
        /\ CellsOf(frame) = MappedCells(term)
        /\ CellsOf(frame) =
              CellsOf(drawBuff(program, OtherPlatform, pixelBuff, term.cols, term.rows))

\* C18 on the frames drawn with the terminal size known and inside the
\* console buffer.
C18_BackendsRenderSameCellsQueried ==
    (frame.queryOk /\ ~ub) => C18_BackendsRenderSameCells

(***************************************************************************)
(* Properties of the frame pacer.                                          *)
(***************************************************************************)

Max(a, b) == IF a > b THEN a ELSE b

\* C12: each call to wait() blocks until the deadline that was current when
\* it was called and then advances the deadline by exactly one frame
\* interval, also when the caller arrives later than the deadline by more
\* than one interval.
C12_WaitBlocksThenAdvances ==
    paceLog.calls >= 1 =>
        /\ paceLog.ret = Max(paceLog.at, paceLog.deadline)
        /\ nextFrame = paceLog.deadline + FrameInterval

\* C12, amended: each call advances the deadline it finds by exactly one
\* frame interval, however late the caller is, and then blocks until the
\* advanced deadline.
C12_WaitAdvancesThenBlocks ==
    paceLog.calls >= 1 =>
        /\ nextFrame = paceLog.deadline + FrameInterval
        /\ paceLog.ret = Max(paceLog.at, nextFrame)

\* A call that arrived more than one interval after the deadline.
C12_Witness ==
    /\ paceLog.calls >= 2
    /\ paceLog.at > paceLog.deadline + FrameInterval
    /\ nextFrame = paceLog.deadline + FrameInterval
    /\ paceLog.ret = paceLog.at

\* C13: on a fresh pacer the k-th of consecutive wait() calls with no work
\* between them returns at first-use time plus k frame intervals.
C13_ConsecutiveWaits ==
    (paceLog.calls >= 1 /\ paceLog.idle) =>
        paceLog.ret = paceLog.first + paceLog.calls * FrameInterval

C13_Witness ==
    /\ paceLog.calls = MaxWaits
    /\ paceLog.idle
    /\ paceLog.first > 0
    /\ now = paceLog.first + MaxWaits * FrameInterval

\* C14: for any sequence of caller work durations, at every return from
\* wait() the deadline lags the current time by less than one frame
\* interval.
C14_DriftBelowOneFrame ==
    paceLog.calls >= 1 => paceLog.ret - nextFrame < FrameInterval

\* C14 while the caller's work between two calls stays below one interval.
C14_DriftWithoutOverrun ==
    (paceLog.calls >= 1 /\ paceLog.at - paceLog.deadline <= 0) =>
        paceLog.ret - nextFrame < FrameInterval

(***************************************************************************)
(* Properties of raw mode.                                                 *)
(***************************************************************************)

\* Whether the last calls were a and then b.
LastCalls(a, b) ==
    LET n == Len(ttyLog.ops)
    IN n >= 2 /\ ttyLog.ops[n - 1] = a /\ ttyLog.ops[n] = b

\* C15: enable() followed by restore() returns the terminal to its
\* pre-enable state (canonical mode, local echo and the non-blocking flag
\* of the input stream), and a second restore() changes nothing.
C15_RestoreUndoesEnable ==
    /\ LastCalls("enable", "restore") => tty = ttyLog.pre
    /\ LastCalls("restore", "restore") => tty = ttyLog.prev

\* C15 without the non-blocking flag.
C15_RestoreUndoesTermios ==
    /\ LastCalls("enable", "restore") =>
          tty.icanon = ttyLog.pre.icanon /\ tty.echo = ttyLog.pre.echo
    /\ LastCalls("restore", "restore") => tty = ttyLog.prev

(***************************************************************************)
(* Properties of the main loop.                                            *)
(***************************************************************************)

\* How often an iteration log has the step op.
Count(log, op) == Cardinality({i \in 1..Len(log) : log[i].op = op})

\* The iteration in progress and the last one that ended.
TickLogs == {tickLog, lastTick} \ {<<>>}

\* C4: every tick of the main loop applies frame pacing exactly once,
\* whether the tick is Running or Waiting (terminal below the minimum size).
C4_EveryTickPaces ==
    lastTick # <<>> => Count(lastTick, "pace") = 1

\* C4 on the loop of unnamed/part_000:303-315 alone.
C4_EveryTickPacesPart000 == (program = "part000") => C4_EveryTickPaces

\* C5: in a tick the canvas is presented only if the terminal size query
\* succeeded and columns >= canvas width and rows >= canvas height / 2; when
\* the query fails or a dimension is below the minimum, the tick presents
\* nothing.
C5_PresentOnlyWhenSizeKnownAndLargeEnough ==
    \A log \in TickLogs :
        Count(log, "present") > 0 =>
            \E i \in 1..Len(log) :
                /\ log[i].op = "size"
                /\ log[i].ok
                /\ log[i].w >= ScreenW
                /\ log[i].h >= ScreenH \div 2

\* C5 on the ticks whose size query succeeded.
C5_PresentOnlyWhenLargeEnough ==
    \A log \in TickLogs :
        (Count(log, "present") > 0 /\ \A i \in 1..Len(log) : log[i].ok) =>
            \E i \in 1..Len(log) :
                log[i].op = "size" /\ log[i].w >= ScreenW /\ log[i].h >= ScreenH \div 2

\* C6: an Escape key event returned by poll() makes the loop end, and on the
\* way out raw-mode restoration runs exactly once, never more than once.
C6_EscapeExitsAndRestoresOnce ==
    /\ restoreCount <= 1
    /\ (escapeSeen /\ pc = "done") => restoreCount = 1

\* C6, first half: once an Escape event was handled no further tick starts.
C6_NoTickAfterEscape == [][escapeSeen => ticks' = ticks]_vars

\* C7: input is polled at the top of every tick, before the terminal size
\* check, also in ticks where the terminal is below the minimum size.
C7_PollFirstInEveryTick ==
    \A log \in TickLogs : log[1].op = "poll"

\* C7, weaker: a tick that reaches pollInput() at all.
C7_EveryEndedTickPolled ==
    lastTick # <<>> => Count(lastTick, "poll") = 1

(***************************************************************************)
(* Properties of the session's output.                                     *)
(***************************************************************************)

\* The positions of the item v in what has reached the terminal.
OutAt(v) == {i \in 1..Len(out) : out[i] = v}

\* C16: the session control sequences bracket all frame output: enter
\* alternate screen then hide cursor once before the first frame, show
\* cursor then leave alternate screen once on clean exit after the last
\* frame, no frame before the enter or after the leave.
C16_SessionBracketsFrames ==
    platform = "posix" =>
        /\ Cardinality(OutAt("enter_alt")) <= 1
        /\ Cardinality(OutAt("leave_alt")) <= 1
        /\ \A i \in OutAt("enter_alt") : i < Len(out) => out[i + 1] = "hide_cursor"
        /\ \A i \in OutAt("leave_alt") : i > 1 /\ out[i - 1] = "show_cursor"
        /\ \A f \in OutAt("frame") :
              /\ \E i \in OutAt("enter_alt") : i < f
              /\ \A i \in OutAt("leave_alt") : f < i
        /\ pc = "done" => Cardinality(OutAt("enter_alt")) = 1 /\ Cardinality(OutAt("leave_alt")) = 1

\* C16 when std::cout is not buffered.
C16_SessionBracketsUnbuffered == (coutMode = "none") => C16_SessionBracketsFrames

====
